---- MODULE Spec2Model ----
(***************************************************************************)
(* The mass-shootings dashboard of run.py as a state machine: the cache    *)
(* file data/shootings.csv, the module-level DataFrame shootings_df, the   *)
(* table the browser shows, and the two callbacks record_shooting and      *)
(* update_dateframe, with the start-up code that builds shootings_df.      *)
(*                                                                         *)
(* Values.  A Python value of the form is a record tagged by its type.     *)
(* Text that the code only copies is a TLA+ string; text that the code     *)
(* takes apart is modelled by its parts: an address "a, b, c" is the       *)
(* sequence of its comma-separated pieces (each piece keeps its leading    *)
(* blank), an ISO date "2018-01-05" is the triple of its numbers.  A       *)
(* DataFrame is its column names, its index labels and its rows, a row     *)
(* being a function from column names to cells.                            *)
(***************************************************************************)
EXTENDS Integers, Sequences, FiniteSets, TLC

VARIABLES pc, source, file, shootings_df, table, last

vars == <<pc, source, file, shootings_df, table, last>>

\* ------------------------------------------------------------------ bounds
\* Rows of data/gun_violence.csv.
MaxSource == 1
\* Rows shootings_df may hold while add-record submissions are still explored.
MaxRecords == 2
\* Longest time (in time units) explored between two consecutive calls of the
\* geocoding service.
MaxGap == 1

\* The minimum delay between two calls of the geocoding service (spec 4.4:
\* "observed ~1-1.2 time-units"); run.py configures none.
MinDelay == 1

Range(s) == {s[i] : i \in DOMAIN s}

\* ------------------------------------------------------------ Python values
None == [kind |-> "None"]
PyInt(n) == [kind |-> "int", v |-> n]
\* A float, in tenths: PyFloat(25) is 2.5.
PyFloat(t) == [kind |-> "float", tenths |-> t]
PyStr(s) == [kind |-> "str", s |-> s]

Ok(v) == [ok |-> TRUE, v |-> v]
Raise(e) == [ok |-> FALSE, exc |-> e]

\* int(x): an int is itself, a float is truncated toward zero, a string is
\* read as a decimal numeral or raises ValueError, None raises TypeError.
Numeral(s) == CASE s = "7" -> Ok(7) [] s = "-3" -> Ok(-3) [] OTHER -> Raise("ValueError")
int(x) == CASE x.kind = "int" -> Ok(x.v)
            [] x.kind = "float" -> Ok(IF x.tenths >= 0 THEN x.tenths \div 10 ELSE -((-x.tenths) \div 10))
            [] x.kind = "str" -> Numeral(x.s)
            [] OTHER -> Raise("TypeError")

\* ------------------------------------------------------------------- text
\* str.strip() and str.lower() on the pieces of the addresses of the model.
strip(s) == CASE s = " Austin" -> "Austin"
              [] s = " Travis County" -> "Travis County"
              [] s = " Texas" -> "Texas"
              [] s = " USA" -> "USA"
              [] s = " United States" -> "United States"
              [] s = " Paris" -> "Paris"
              [] s = " Ile-de-France" -> "Ile-de-France"
              [] s = " France" -> "France"
              [] OTHER -> s
lower(s) == CASE s = "USA" -> "usa"
              [] s = " USA" -> " usa"
              [] s = "United States" -> "united states"
              [] s = " United States" -> " united states"
              [] s = "France" -> "france"
              [] s = " France" -> " france"
              [] OTHER -> s
\* s.find('Unnamed') on the column names of the model: the position, or -1.
find_Unnamed(s) == IF s = "Unnamed: 0" THEN 0 ELSE -1

\* ------------------------------------------------------------------ dates
DateText(y, m, d) == [kind |-> "str", y |-> y, m |-> m, d |-> d]
DateObj(y, m, d) == [kind |-> "date", year |-> y, month |-> m, day |-> d]
IsLeap(y) == (y % 4 = 0 /\ y % 100 # 0) \/ y % 400 = 0
DaysIn(y, m) == CASE m \in {4, 6, 9, 11} -> 30
                  [] m = 2 -> IF IsLeap(y) THEN 29 ELSE 28
                  [] OTHER -> 31
\* pd.to_datetime(x).date(): a date is itself, a text is parsed or raises.
to_datetime(x) == IF x.kind = "date" THEN Ok(x)
                  ELSE IF x.m \in 1..12 /\ x.d \in 1..DaysIn(x.y, x.m)
                       THEN Ok(DateObj(x.y, x.m, x.d))
                       ELSE Raise("ParserError")
\* date.isoformat(), the text to_csv and the JSON encoder write for a date.
isoformat(x) == IF x.kind = "date" THEN DateText(x.year, x.month, x.day) ELSE x
DateLE(a, b) == \/ a.year < b.year
                \/ a.year = b.year /\ a.month < b.month
                \/ a.year = b.year /\ a.month = b.month /\ a.day <= b.day
\* calendar.month_name
month_name == <<"January", "February", "March", "April", "May", "June", "July",
                "August", "September", "October", "November", "December">>

\* -------------------------------------------------------------- DataFrames
DataFrame(columns, index, rows) == [columns |-> columns, index |-> index, rows |-> rows]
RangeIndex(n) == [i \in 1..n |-> i - 1]
\* The rows at positions ps (a sequence of positions), with their labels.
Take(df, ps) == DataFrame(df.columns,
                          [k \in DOMAIN ps |-> df.index[ps[k]]],
                          [k \in DOMAIN ps |-> df.rows[ps[k]]])
RECURSIVE Ascending(_, _, _)
Ascending(S, k, n) == IF k > n THEN <<>>
                      ELSE (IF k \in S THEN <<k>> ELSE <<>>) \o Ascending(S, k + 1, n)
\* df[::-1]
Reversed(df) == Take(df, [k \in DOMAIN df.rows |-> Len(df.rows) + 1 - k])
\* df.reset_index(drop=True)
reset_index(df) == [df EXCEPT !.index = RangeIndex(Len(df.rows))]
\* df[cols]
Select(df, cols) == [df EXCEPT !.columns = cols,
                               !.rows = [i \in DOMAIN df.rows |-> [c \in Range(cols) |-> df.rows[i][c]]]]
\* The positions 1..n in every order that leaves the 'date' column ascending:
\* sort_values(by='date') uses quicksort, which fixes no order among equal dates.
SortedOrders(df) == {p \in [DOMAIN df.rows -> DOMAIN df.rows] :
                       /\ \A i, j \in DOMAIN p : i # j => p[i] # p[j]
                       /\ \A i, j \in DOMAIN p : i < j => DateLE(df.rows[p[i]]["date"], df.rows[p[j]]["date"])}

\* ------------------------------------------------------------------- files
NoFile == [exists |-> FALSE, header |-> <<>>, lines |-> <<>>]
\* What to_csv writes for a cell: a date in ISO form, anything else as it prints.
CsvCell(c, v) == IF c = "date" THEN isoformat(v) ELSE v
\* df.to_csv(path): the index goes first, under an empty column name.
to_csv(df) == [exists |-> TRUE,
               header |-> <<"">> \o df.columns,
               lines |-> [i \in DOMAIN df.rows |->
                            [c \in Range(df.columns) \cup {""} |->
                               IF c = "" THEN df.index[i] ELSE CsvCell(c, df.rows[i][c])]]]
\* pd.read_csv(path): a column without a name is called 'Unnamed: 0'.
CsvName(h) == IF h = "" THEN "Unnamed: 0" ELSE h
read_csv(f) == DataFrame([i \in DOMAIN f.header |-> CsvName(f.header[i])],
                         RangeIndex(Len(f.lines)),
                         [i \in DOMAIN f.lines |->
                            [c \in {CsvName(h) : h \in Range(f.header)} |->
                               f.lines[i][IF c = "Unnamed: 0" THEN "" ELSE c]]])

remove_unnamed_column(df) == IF find_Unnamed(df.columns[1]) >= 0
                             THEN Select(df, Tail(df.columns))
                             ELSE df

\* ---------------------------------------------------------- get_shootings
IngestColumns == <<"date", "state", "city_or_county", "address",
                   "n_killed", "n_injured", "latitude", "longitude">>
\* The columns of the model in which a cell may be missing (NaN).
TextColumns == {"state", "city_or_county", "address", "latitude", "longitude"}
IsNaN(c, v) == c \in TextColumns /\ v = "NaN"
\* df.query('n_killed + n_injured > 3')
SeverityFilter(df) == Take(df, Ascending({i \in DOMAIN df.rows :
                                           df.rows[i]["n_killed"] + df.rows[i]["n_injured"] > 3},
                                        1, Len(df.rows)))
dropna(df) == Take(df, Ascending({i \in DOMAIN df.rows :
                                   \A c \in Range(df.columns) : ~IsNaN(c, df.rows[i][c])},
                                1, Len(df.rows)))
\* Lines 85-90: the DataFrame built from data/gun_violence.csv.
Ingest(src) == reset_index(dropna(Select(SeverityFilter(read_csv(src)), IngestColumns)))
\* Lines 82-83: the DataFrame read from the cache file.
LoadCache(f) == remove_unnamed_column(read_csv(f))
DateOf(r) == to_datetime(r["date"]).v
TotalOf(r) == r["n_killed"] + r["n_injured"]
FullAddressOf(r) == r["address"] \o ", " \o r["city_or_county"] \o ", " \o r["state"]
\* Lines 94-100 on the DataFrame in the order p that sort_values chose.
MonthNameOf(r) == month_name[r["date"].month]
MonthNumberOf(r) == r["date"].month
\* What the code assigns to column c in the row r.
Computed(c, r) == CASE c = "date" -> DateOf(r)
                    [] c = "total" -> TotalOf(r)
                    [] c = "full_address" -> FullAddressOf(r)
                    [] c = "month_name" -> MonthNameOf(r)
                    [] c = "month_number" -> MonthNumberOf(r)
\* df[c] = ...: the column is replaced, or added as the last one.
Assign(df, c) == [df EXCEPT !.columns = IF c \in Range(df.columns) THEN df.columns ELSE Append(df.columns, c),
                            !.rows = [i \in DOMAIN df.rows |->
                                        [k \in DOMAIN df.rows[i] \cup {c} |->
                                           IF k = c THEN Computed(c, df.rows[i]) ELSE df.rows[i][k]]]]
Prepare(df, p) == Assign(Assign(Take(Assign(df, "date"), p), "total"), "full_address")
\* get_shootings(): every (DataFrame returned, cache file left, source read?).
get_shootings(f, src) ==
    LET df0 == IF f.exists THEN LoadCache(f) ELSE Ingest(src)
    IN  {[df |-> Prepare(df0, p),
          file |-> IF f.exists THEN f ELSE to_csv(df0),
          read_source |-> ~f.exists] : p \in SortedOrders(Assign(df0, "date"))}

\* get_shootings_by_month(df) adds two columns to the DataFrame it is given.
get_shootings_by_month(df) == Assign(Assign(df, "month_name"), "month_number")

\* create_table(df): the rows of df[::-1] as the browser receives them, dates
\* in ISO form; the table has no index.
JsonRow(r) == [r EXCEPT !["date"] = isoformat(@)]
create_table(df) == [columns |-> df.columns,
                     data |-> [i \in DOMAIN df.rows |-> JsonRow(Reversed(df).rows[i])]]
\* ------------------------------------------------------------ get_location
\* What one call of Nominatim.geocode does: it returns a Location (the pieces
\* of its address, its coordinates), returns None, or raises.
Location(pieces, lat, lon) == [kind |-> "Location", address |-> pieces, latitude |-> lat, longitude |-> lon]
GeocoderRaises == [kind |-> "raise"]
\* get_location(search), the first call (line 66) ending as o1 and the second
\* (line 70) as o2: an exception of the first call is swallowed and leaves
\* `location` unbound, the second call is outside the try, its value is dropped.
get_location(o1, o2) == IF o2.kind = "raise" THEN Raise("GeocoderServiceError")
                        ELSE IF o1.kind = "raise" THEN Raise("UnboundLocalError")
                        ELSE Ok(o1)
\* Calls of the geocoding service one get_location() issues (lines 66 and 70).
GeocodeCalls == 2

\* --------------------------------------------------------- record_shooting
\* The messages, with the indentation their continuation lines bring into them.
MsgRequired == "All fields are required and                negative numbers are not allowed."
MsgAddress == "Address must be a valid Google Maps            address in the United States."
MsgNotUS == "Address must be in the United States."
MsgCounts == "Injured and Killed are required and            must be non-negative integers."
MsgDate == "Invalid date format."

\* The loop of lines 466-469 stopping one field early.
AnyFieldMissingButLast(a) == a.date = None \/ a.address = None \/ a.injured = None
\* Lines 466-469.
AnyFieldMissing(a) == a.date = None \/ a.address = None \/ a.injured = None \/ a.killed = None
\* Lines 479-486 on what get_location gave (loc): the parts of the address, or
\* the exception the try block catches.
ResolveAddress(loc) ==
    IF ~loc.ok THEN Raise(loc.exc)
    ELSE IF loc.v.kind # "Location" THEN Raise("TypeError")
    ELSE LET arr == loc.v.address
             n == Len(arr)
         IN  IF n < 4 THEN Raise("IndexError")
             ELSE LET address == arr[1] \o arr[2]
                      city_or_county == strip(arr[n - 3])
                      state == strip(arr[n - 2])
                      country == strip(arr[n])
                  IN  Ok([address |-> address, city_or_county |-> city_or_county,
                          state |-> state, country |-> country,
                          full_address |-> address \o ", " \o city_or_county \o ", "
                                           \o state \o ", " \o country])
\* Lines 495-498 with == for != in the second comparison.
CountryRejectedTypo(country) == /\ lower(country) # "united states"
                                /\ lower(country) = "usa"
                                /\ lower(country) # "u.s.a."
                                /\ lower(country) # "united states of america"
\* Lines 495-498: the test that ends the submission with MsgNotUS.
CountryRejected(country) == /\ lower(country) # "united states"
                            /\ lower(country) # "usa"
                            /\ lower(country) # "u.s.a."
                            /\ lower(country) # "united states of america"
\* Lines 528-541.
NewRow(date, where, injured, killed, loc) ==
    [c \in {"date", "state", "city_or_county", "address", "n_injured", "n_killed", "latitude",
             "longitude", "total", "full_address", "month_name", "month_number"} |->
       CASE c = "date" -> date
         [] c = "state" -> where.state
         [] c = "city_or_county" -> where.city_or_county
         [] c = "address" -> where.address
         [] c = "n_injured" -> injured
         [] c = "n_killed" -> killed
         [] c = "latitude" -> loc.latitude
         [] c = "longitude" -> loc.longitude
         [] c = "total" -> injured + killed
         [] c = "full_address" -> where.full_address
         [] c = "month_name" -> month_name[date.month]
         [] OTHER -> date.month]
RowColumns == <<"date", "state", "city_or_county", "address", "n_injured", "n_killed", "latitude",
                "longitude", "total", "full_address", "month_name", "month_number">>
\* pd.concat([df, row], ignore_index=True): the columns of df, then those only
\* the row has; a cell no frame gives is NaN.
concat(df, row) ==
    LET cols == df.columns \o SelectSeq(RowColumns, LAMBDA c : c \notin Range(df.columns))
        n == Len(df.rows) + 1
    IN  DataFrame(cols, RangeIndex(n),
                  [i \in 1..n |-> [c \in Range(cols) |->
                      LET r == IF i < n THEN df.rows[i] ELSE row
                      IN  IF c \in DOMAIN r THEN r[c] ELSE "NaN"]])

Rejected(msg, df) == [raised |-> FALSE, children |-> msg, is_open |-> TRUE,
                      table |-> create_table(df), written |-> FALSE, df |-> df]
Uncaught(df) == [raised |-> TRUE, children |-> "", is_open |-> FALSE,
                 table |-> create_table(df), written |-> FALSE, df |-> df]
\* record_shooting(n_clicks, date, address, injured, killed) with shootings_df
\* being df and the two geocoder calls ending as o1 and o2: what it returns,
\* and the DataFrame it writes to the cache file when it writes one.
RecordShooting(df, a, o1, o2) ==
    IF AnyFieldMissing(a) THEN Rejected(MsgRequired, df)
    ELSE LET loc == get_location(o1, o2)
             where == ResolveAddress(loc)
             injured == int(a.injured)
             killed == int(a.killed)
             date == to_datetime(a.date)
         IN  IF ~where.ok THEN Rejected(MsgAddress, df)
             ELSE IF CountryRejected(where.v.country) THEN Rejected(MsgNotUS, df)
             ELSE IF ~injured.ok THEN (IF injured.exc = "ValueError" THEN Rejected(MsgCounts, df) ELSE Uncaught(df))
             ELSE IF ~killed.ok THEN (IF killed.exc = "ValueError" THEN Rejected(MsgCounts, df) ELSE Uncaught(df))
             ELSE IF ~date.ok THEN Rejected(MsgDate, df)
             ELSE LET new == remove_unnamed_column(
                                concat(df, NewRow(date.v, where.v, injured.v, killed.v, loc.v)))
                  IN  [raised |-> FALSE, children |-> "", is_open |-> FALSE,
                       table |-> create_table(new), written |-> TRUE, df |-> new]

\* -------------------------------------------------------- update_dateframe
\* update_dateframe(table): the DataFrame it writes to the cache file, or the
\* KeyError of df['date'] on the column-less DataFrame of an empty table.
UpdateDateframe(t) ==
    IF Len(t.data) = 0 THEN Raise("KeyError")
    ELSE Ok(Assign(Reversed(reset_index(DataFrame(t.columns, RangeIndex(Len(t.data)), t.data))), "date"))
\* ------------------------------------------------------------------ inputs
\* Rows of data/gun_violence.csv: two mass shootings, an incident with three
\* victims, and an incident without coordinates.
SourceHeader == <<"incident_id", "date", "state", "city_or_county", "address",
                  "n_killed", "n_injured", "latitude", "longitude">>
SourceRow(id, date, state, city, address, killed, injured, lat, lon) ==
    [c \in Range(SourceHeader) |->
       CASE c = "incident_id" -> id
         [] c = "date" -> date
         [] c = "state" -> state
         [] c = "city_or_county" -> city
         [] c = "address" -> address
         [] c = "n_killed" -> killed
         [] c = "n_injured" -> injured
         [] c = "latitude" -> lat
         [] OTHER -> lon]
SourcePool == <<SourceRow(1, DateText(2018, 1, 5), "Texas", "Austin", "1 Main St", 4, 0, "30.27", "-97.74"),
                SourceRow(2, DateText(2017, 3, 9), "Ohio", "Dayton", "5 Elm St", 1, 4, "39.76", "-84.19"),
                SourceRow(3, DateText(2018, 1, 5), "Ohio", "Dayton", "9 Oak Ave", 1, 2, "39.75", "-84.20"),
                SourceRow(4, DateText(2016, 7, 1), "Texas", "Austin", "2 Pine Rd", 3, 3, "NaN", "NaN")>>
\* The source files of the model: up to MaxSource rows of the pool, in its order.
SourceFiles == {[exists |-> TRUE, header |-> SourceHeader,
                 lines |-> [k \in DOMAIN Ascending(S, 1, Len(SourcePool)) |->
                              SourcePool[Ascending(S, 1, Len(SourcePool))[k]]]] :
                  S \in {T \in SUBSET DOMAIN SourcePool : Cardinality(T) \in 1..MaxSource}}

\* What the geocoder may answer.
GeocodeOutcomes ==
    {GeocoderRaises, None,
     Location(<<"7 Lake Dr", " Austin", " Travis County", " Texas", " USA">>, "30.30", "-97.70"),
     Location(<<"3 Rue A", " Paris", " Ile-de-France", " France">>, "48.85", "2.35"),
     Location(<<"Paris", " France">>, "48.86", "2.34"),
     Location(<<"Austin", " Texas", " United States">>, "30.26", "-97.75")}
\* What the form may hold when Save is clicked.
FormDates == {None, DateText(2017, 6, 1), DateText(2017, 13, 1)}
FormAddresses == {None, PyStr("7 Lake Dr, Austin")}
FormInjured == {None, PyInt(2), PyInt(-1)}
FormKilled == {None, PyInt(0), PyFloat(5), PyStr("abc")}
FormArgs == [date : FormDates, address : FormAddresses, injured : FormInjured, killed : FormKilled]

\* ------------------------------------------------------------------- state
EmptyFrame == DataFrame(<<>>, <<>>, <<>>)
NoTable == [columns |-> <<>>, data |-> <<>>]
NoArgs == [date |-> None, address |-> None, injured |-> None, killed |-> None]
NoGeocode == [called |-> FALSE, first |-> None, second |-> None, result |-> "none",
              calls |-> 0, min_gap |-> MinDelay]
NoReturn == [raised |-> FALSE, children |-> "", is_open |-> FALSE, table |-> NoTable]
\* The last callback or start: its name, its arguments, what the geocoder did in
\* it, whether it read data/gun_violence.csv, and what it returned.
Last(op, a, g, read_source, returned) ==
    [op |-> op, args |-> a, geo |-> g, read_source |-> read_source, returned |-> returned]

\* The columns that identify a record, its date in ISO form.
Core(r) == [c \in Range(IngestColumns) |-> CsvCell(c, r[c])]

Remove(s, i) == [k \in 1..(Len(s) - 1) |-> IF k < i THEN s[k] ELSE s[k + 1]]

Init == /\ pc = "boot"
        /\ source \in SourceFiles
        /\ file = NoFile
        /\ shootings_df = EmptyFrame
        /\ table = NoTable
        /\ last = Last("none", NoArgs, NoGeocode, FALSE, NoReturn)

\* pc is where the process is: "boot" before the module is loaded, "serving"
\* between callbacks, "responding" while what record_shooting returned is on its
\* way to the browser, "crashed" when the start-up failed.
\* Lines 247-250, 261 and 407: the module is loaded.  An empty dataset ends the
\* process at line 261 (.item() of an empty column), after the cache was written.
Startup ==
    /\ pc = "boot"
    /\ \E g \in get_shootings(file, source) :
         /\ file' = g.file
         /\ last' = Last("get_shootings", NoArgs, NoGeocode, g.read_source, NoReturn)
         /\ IF Len(g.df.rows) = 0
            THEN pc' = "crashed" /\ UNCHANGED <<shootings_df, table>>
            ELSE /\ pc' = "serving"
                 /\ shootings_df' = get_shootings_by_month(g.df)
                 /\ table' = create_table(get_shootings_by_month(g.df))
    /\ UNCHANGED source

\* The process ends (line 587 returns or the start-up failed): what it held in
\* memory and what the browser showed is gone, the files stay.
Shutdown ==
    /\ pc \in {"serving", "crashed"}
    /\ pc' = "boot"
    /\ shootings_df' = EmptyFrame
    /\ table' = NoTable
    /\ last' = Last("shutdown", NoArgs, NoGeocode, FALSE, NoReturn)
    /\ UNCHANGED <<source, file>>

\* What the geocoder calls of a submission may do and when: the outcomes of the
\* two calls and the time between them, which is the time the first call takes
\* (the code waits nowhere).  A submission with a missing field calls nothing.
Geocoding(a) ==
    IF AnyFieldMissing(a) THEN {NoGeocode}
    ELSE {[called |-> TRUE, first |-> o1, second |-> o2,
           result |-> IF ~get_location(o1, o2).ok THEN "raised" ELSE get_location(o1, o2).v.kind,
           calls |-> GeocodeCalls,
           min_gap |-> gap] :
            o1 \in GeocodeOutcomes, o2 \in {None, GeocoderRaises}, gap \in 0..MaxGap}

\* The Save button is clicked: the callback of lines 446-554 runs, writes the
\* cache file when it accepts the submission, and returns.
record_shooting ==
    /\ pc = "serving"
    /\ Len(shootings_df.rows) < MaxRecords
    /\ \E a \in FormArgs :
         \E g \in Geocoding(a) :
            LET r == RecordShooting(shootings_df, a, g.first, g.second)
            IN  /\ last' = Last("record_shooting", a, g, FALSE,
                                [raised |-> r.raised, children |-> r.children,
                                 is_open |-> r.is_open, table |-> r.table])
                /\ file' = IF r.written THEN to_csv(r.df) ELSE file
    /\ pc' = "responding"
    /\ UNCHANGED <<source, shootings_df, table>>

\* The browser receives what record_shooting returned (the Outputs of lines
\* 447-449); the table is the one of them that a later callback reads.  Nothing
\* arrives when the callback raised.
Respond ==
    /\ pc = "responding"
    /\ pc' = "serving"
    /\ table' = IF last.returned.raised THEN table ELSE last.returned.table
    /\ last' = Last("none", NoArgs, NoGeocode, FALSE, NoReturn)
    /\ UNCHANGED <<source, file, shootings_df>>

\* A row of the table is deleted in the browser: the callback of lines 558-583
\* runs on the table that is left.
update_dateframe ==
    /\ pc = "serving"
    /\ \E i \in DOMAIN table.data :
         LET t == [table EXCEPT !.data = Remove(table.data, i)]
             r == UpdateDateframe(t)
         IN  /\ table' = t
             /\ file' = IF r.ok THEN to_csv(r.v) ELSE file
             /\ last' = Last("update_dateframe", NoArgs, NoGeocode, FALSE, NoReturn)
    /\ UNCHANGED <<pc, source, shootings_df>>

Next == Startup \/ Shutdown \/ record_shooting \/ Respond \/ update_dateframe

Spec == Init /\ [][Next]_vars
\* ------------------------------------------------------- what the claims say
\* The records of the cache file: its lines without the index column.
FileRecords(f) == [i \in DOMAIN f.lines |-> [c \in DOMAIN f.lines[i] \ {""} |-> f.lines[i][c]]]
Cores(rows) == {Core(rows[i]) : i \in DOMAIN rows}
\* The step is a submission of the add-record form.
Submitted == last'.op = "record_shooting"
\* The submission returned a table with one record more than shootings_df holds.
Appended == Submitted /\ Len(last'.returned.table.data) > Len(shootings_df.rows)

\* The validation rules as the specification words them, on the submission l.
USNames == {"united states", "usa", "u.s.a.", "united states of america"}
CountryName(piece) == CASE piece \in {"USA", " USA"} -> "usa"
                        [] piece \in {"United States", " United States"} -> "united states"
                        [] piece \in {"France", " France"} -> "france"
                        [] OTHER -> piece
FieldMissing(l) == \E f \in DOMAIN l.args : l.args[f] = None
Resolved(l) == l.geo.called /\ l.geo.result = "Location"
Pieces(l) == l.geo.first.address
CountryOf(l) == CountryName(Pieces(l)[Len(Pieces(l))])
CountParses(x) == x.kind \in {"int", "float"} \/ (x.kind = "str" /\ x.s \in {"7", "-3"})
DateParses(x) == x.kind = "str" /\ x.m \in 1..12 /\ x.d \in 1..DaysIn(x.y, x.m)
Negative(x) == (x.kind = "int" /\ x.v < 0) \/ (x.kind = "float" /\ x.tenths < 0)
NonIntegral(x) == x.kind = "float" /\ x.tenths % 10 # 0
FailsValidation(l) ==
    \/ FieldMissing(l)
    \/ ~Resolved(l)
    \/ Len(Pieces(l)) < 4
    \/ CountryOf(l) \notin USNames
    \/ ~CountParses(l.args.injured) \/ ~CountParses(l.args.killed)
    \/ ~DateParses(l.args.date)
NothingWritten == file' = file /\ shootings_df' = shootings_df
MessageShown == last'.returned.children # "" /\ last'.returned.is_open

\* C1: a submission that passes all validation leaves the cache file with every
\* record it held before plus exactly one new record.
C1_AppendsOneRecord ==
    [][Submitted /\ ~FailsValidation(last')
         => /\ Len(file'.lines) = Len(file.lines) + 1
            /\ Cores(file.lines) \subseteq Cores(file'.lines)]_vars

\* C2: a submission that fails validation returns a non-empty message with the
\* alert opened, and leaves the cache file and shootings_df as they were.
C2_RejectionWritesNothing ==
    [][Submitted /\ FailsValidation(last') => MessageShown /\ NothingWritten]_vars
\* C2: a submission whose only fault is a killed count that does not parse was
\* rejected, after an earlier submission had been written to the cache file.
C2_Witness ==
    /\ last.op = "record_shooting" /\ FailsValidation(last)
    /\ Resolved(last) /\ CountryOf(last) \in USNames /\ ~CountParses(last.args.killed)
    /\ last.returned.children = MsgCounts /\ last.returned.is_open
    /\ Len(file.lines) > Len(shootings_df.rows)

\* C3: a submission with a negative or non-integral injured or killed value is
\* rejected with a message and appends nothing, and no record of the dataset has
\* a negative count.
C3_NonNegativeIntegers ==
    [][/\ Submitted /\ ~FieldMissing(last')
               /\ (\E x \in {last'.args.injured, last'.args.killed} : Negative(x) \/ NonIntegral(x))
            => MessageShown /\ NothingWritten
       /\ \A i \in DOMAIN file'.lines :
            file'.lines[i]["n_injured"] >= 0 /\ file'.lines[i]["n_killed"] >= 0]_vars

\* C4 as claimed: a record is appended only if the country of the resolved
\* address is an accepted spelling, and a resolved address with any other
\* country ends with "Address must be in the United States." and no write.
C4_AsClaimed ==
    [][/\ Appended => Resolved(last') /\ CountryOf(last') \in USNames
       /\ Submitted /\ Resolved(last') /\ CountryOf(last') \notin USNames
            => last'.returned.children = MsgNotUS /\ last'.returned.is_open /\ NothingWritten]_vars
\* C4 as amended: a record is appended only if the country of the resolved
\* address is an accepted spelling; a resolved address of at least four pieces
\* with any other country ends with "Address must be in the United States.", a
\* resolved address of fewer than four pieces ends with "Address must be a valid
\* Google Maps address in the United States." whatever its country; neither
\* writes anything.
C4_NonUSRejected ==
    [][/\ Appended => Resolved(last') /\ CountryOf(last') \in USNames
       /\ Submitted /\ Resolved(last') /\ Len(Pieces(last')) >= 4 /\ CountryOf(last') \notin USNames
            => last'.returned.children = MsgNotUS /\ last'.returned.is_open /\ NothingWritten
       /\ Submitted /\ Resolved(last') /\ Len(Pieces(last')) < 4
            => last'.returned.children = MsgAddress /\ last'.returned.is_open /\ NothingWritten]_vars
\* C4: a resolved French address of four pieces was answered with MsgNotUS.
C4_Witness ==
    /\ last.op = "record_shooting" /\ Resolved(last)
    /\ Len(Pieces(last)) >= 4 /\ CountryOf(last) = "france"
    /\ last.returned.children = MsgNotUS /\ last.returned.is_open

\* C5: a start with the cache file present reads no source dataset, calls no
\* geocoder, leaves the cache file as it is, and returns the records of the
\* cache with the field values the cache holds.
C5_ReloadIsCache ==
    [][last'.op = "get_shootings" /\ file.exists /\ pc' = "serving"
         => /\ ~last'.read_source
            /\ last'.geo.calls = 0
            /\ file' = file
            /\ Len(shootings_df'.rows) = Len(file.lines)
            /\ \A r \in Range(FileRecords(file)) : \E i \in DOMAIN shootings_df'.rows :
                 r = [c \in DOMAIN r |-> CsvCell(c, shootings_df'.rows[i][c])]
            /\ \A i \in DOMAIN shootings_df'.rows : \E r \in Range(FileRecords(file)) :
                 r = [c \in DOMAIN r |-> CsvCell(c, shootings_df'.rows[i][c])]]_vars

\* C6: get_location returns a Location or the null pair, the null pair whenever
\* the geocoder raises or finds nothing; it never raises.
C6_NullPairOnError ==
    last.geo.called =>
        /\ last.geo.result \in {"Location", "NullPair"}
        /\ last.geo.first.kind \in {"raise", "None"} \/ last.geo.second.kind = "raise"
             => last.geo.result = "NullPair"

\* C7: one get_location issues exactly one call of the geocoding service, and
\* no two calls are less than the minimum delay apart.
C7_RateLimited ==
    last.geo.called => last.geo.calls = 1 /\ last.geo.min_gap >= MinDelay

\* C8: no record of shootings_df or of the cache file has three or fewer victims.
C8_SeverityFilter ==
    /\ \A i \in DOMAIN shootings_df.rows :
         shootings_df.rows[i]["n_killed"] + shootings_df.rows[i]["n_injured"] > 3
    /\ \A i \in DOMAIN file.lines :
         file.lines[i]["n_killed"] + file.lines[i]["n_injured"] > 3

\* C9: every write of the cache file is computed from the dataset as last
\* persisted: record_shooting's from a shootings_df, update_dateframe's from a
\* table, that holds the records of the cache file.
C9_WritesFromPersisted ==
    [][/\ Submitted /\ file' # file
            => Len(shootings_df.rows) = Len(file.lines)
               /\ Cores(shootings_df.rows) = Cores(file.lines)
       /\ last'.op = "update_dateframe" /\ file' # file
            => Len(table.data) = Len(file.lines)
               /\ Cores(table.data) = Cores(file.lines)]_vars

\* C10: the cache file update_dateframe writes holds the rows the table showed
\* minus the deleted one, in un-reversed order; and a submission brings no record
\* into the cache file or the table that neither held before, but the submitted one.
C10_DeletionDurable ==
    [][/\ last'.op = "update_dateframe" /\ file' # file
            => \E i \in DOMAIN table.data :
                 FileRecords(file') = [k \in 1..(Len(table.data) - 1) |->
                                         Remove(table.data, i)[Len(table.data) - k]]
       /\ Submitted
            => Cores(file'.lines) \cup Cores(last'.returned.table.data)
                 \subseteq Cores(file.lines) \cup Cores(table.data)
                            \cup (IF Appended THEN {Core(last'.returned.table.data[1])} ELSE {})]_vars
====
